---------------------------- MODULE Spec2Model ----------------------------
(***************************************************************************)
(* Model of src/automation.py: the tariff-order acquisition script.        *)
(*                                                                         *)
(* Strings (URLs, file names) are sequences of tokens.  A token is one     *)
(* run of characters that the code never looks inside: a name chunk, a     *)
(* separator ("/", "?"), or a suffix such as ".pdf".  The conversions the  *)
(* code applies (lower(), split(), endswith(), the `in` substring test)    *)
(* are computed on these sequences.                                        *)
(*                                                                         *)
(* Four specifications share the variables:                                *)
(*   Spec          the orchestrator loop and each process_<state>()        *)
(*   SpecDownload  download_file() on arbitrary URLs, names and responses  *)
(*   SpecClean     clean_garbage_files() on arbitrary directories          *)
(*   SpecMatch     the row/link selection loops of the ten jurisdictions   *)
(***************************************************************************)
EXTENDS Integers, Sequences, FiniteSets, TLC

VARIABLES
    si,          \* index into states_to_process of the jurisdiction being run
    pc,          \* position in the program
    results,     \* the orchestrator's results dict (jurisdiction -> BOOLEAN)
    success,     \* the local `success` of the running process_<state>()
    dir,         \* entries of the running jurisdiction's download_path
    dir0,        \* history: dir when the run (or the call) started
    driverOpen,  \* number of Chrome drivers started and not yet quit
    cleaned,     \* history: clean_garbage_files ran in this run
    path,        \* history: the way this run went through the try block
    target,      \* the URL handed to download_file
    fnArg,       \* the `filename` argument of download_file (<<>> is None)
    resp,        \* SpecDownload history: the response download_file received
    saved,       \* history: the file name download_file / postback aimed at
    attempts,    \* history: the retrieval attempts of this run, in order
    before,      \* Rajasthan: before_files (names) of the postback wait
    polls,       \* Rajasthan: iterations of the wait loop done so far
    appeared,    \* Rajasthan history: the browser wrote into the folder
                 \* after before_files was taken
    picked,      \* Rajasthan history: downloaded_file and the new_files
                 \* it was taken from
    extraWindows, \* Rajasthan: windows of the driver besides main_window
    activeWindow, \* Rajasthan: the window the driver is switched to
    rows,        \* SpecMatch: number of rows/links the loop has consumed
    matches,     \* SpecMatch: the `matches` list (Assam, UP, Meghalaya)
    sel,         \* SpecMatch: the selected candidate (target / target_info)
    seen         \* SpecMatch history: the rows consumed so far that matter

vars == <<si, pc, results, success, dir, dir0, driverOpen, cleaned, path,
          target, fnArg, resp, saved, attempts, before, polls, appeared,
          picked, extraWindows, activeWindow, rows, matches, sel, seen>>

-----------------------------------------------------------------------------
(* Bounds of the model *)

\* longest URL, in tokens after its origin, that SpecDownload draws
MaxUrlLen == 4
\* most entries a target directory holds before a run of Spec starts
MaxPrior == 2
\* iterations of the postback wait loop (range(60) in the code)
WaitPolls == 2
\* most rows/links a listing page of SpecMatch shows
MaxRows == 3
\* latest day, counted from 01.01.0001, that a date cell of SpecMatch shows
MaxDate == 2
\* most windows the click on the View button opens
MaxWindows == 2
\* most <a> links to a PDF that the details page of SpecDetail shows
MaxLinks == 3

-----------------------------------------------------------------------------
(* Strings *)

\* str.lower() on one token
LowerTok(t) ==
    CASE t = ".PDF" -> ".pdf"
      [] t = "A"    -> "a"
      [] OTHER      -> t

\* str.lower()
Lower(s) == [i \in 1..Len(s) |-> LowerTok(s[i])]

\* s.endswith(t) for a one-token suffix t
EndsWith(s, t) == Len(s) > 0 /\ s[Len(s)] = t

\* t in s, for a one-token t
Contains(s, t) == \E i \in 1..Len(s) : s[i] = t

\* name.lower().endswith(".pdf")
IsPdfName(n) == EndsWith(Lower(n), ".pdf")

\* positions of token t in s
Positions(s, t) == {i \in 1..Len(s) : s[i] = t}

SetMax(S) == CHOOSE x \in S : \A y \in S : y <= x
SetMin(S) == CHOOSE x \in S : \A y \in S : x <= y

\* s.split(t)[-1]: what follows the last t (all of s when t is absent)
LastPart(s, t) ==
    IF Positions(s, t) = {} THEN s
    ELSE SubSeq(s, SetMax(Positions(s, t)) + 1, Len(s))

\* s.split(t)[0]: what precedes the first t (all of s when t is absent)
FirstPart(s, t) ==
    IF Positions(s, t) = {} THEN s
    ELSE SubSeq(s, 1, SetMin(Positions(s, t)) - 1)

\* tokens whose first character is "."
DotTokens == {".", ".pdf", ".PDF", ".htm", ".tmp", ".crdownload"}

\* a name glob("*") does not list: it starts with "."
IsHidden(n) == Len(n) > 0 /\ n[1] \in DotTokens

-----------------------------------------------------------------------------
(* Directories: a set of entries, at most one per name *)

Entry(n, k, c) == [name |-> n, kind |-> k, content |-> c]

Names(d) == {e.name : e \in d}

\* os.path.exists(os.path.join(folder, n))
Exists(d, n) == n \in Names(d)

\* the directory without the entry named n
Without(d, n) == {e \in d : e.name # n}

\* the document files of a directory
Pdfs(d) == {e \in d : IsPdfName(e.name)}


-----------------------------------------------------------------------------
(* download_file *)

\* the Content-Type header values a response carries ("" is no header)
ContentTypes == {"application/pdf", "Application/PDF", "text/html", ""}

\* response.headers.get('Content-Type', '').lower()
LowerCT(c) == IF c = "Application/PDF" THEN "application/pdf" ELSE c

\* 'application/pdf' in content_type
IsPdfCT(c) == LowerCT(c) = "application/pdf"

\* what requests.get does: it raises, or it returns a response whose body
\* streams completely or breaks part-way through iter_content
Responses ==
    {[raised |-> TRUE, status |-> 0, ctype |-> "", body |-> "none"]}
    \cup {[raised |-> FALSE, status |-> s, ctype |-> c, body |-> b] :
             s \in {200, 404}, c \in ContentTypes, b \in {"complete", "broken"}}

\* the default file name: the URL's last "/" part, cut at its first "?"
DefaultName(url) == FirstPart(LastPart(url, "/"), "?")

\* the ".pdf" the code appends to a name that does not end in it
ForcePdf(n) == IF IsPdfName(n) THEN n ELSE Append(n, ".pdf")

\* the name download_file saves under; filename <<>> is None or ""
DownloadName(url, filename) ==
    ForcePdf(IF filename = <<>> THEN DefaultName(url) ELSE filename)

\* the content-type check that aborts the transfer
RejectsContent(r, n) == ~IsPdfCT(r.ctype) /\ ~IsPdfName(n)

\* open(filepath, 'wb') raises when the name is taken by a directory
OpenFails(d, n) == \E e \in d : e.name = n /\ e.kind = "dir"

\* download_file(url, folder, filename) on the response r:
\* the value returned and the folder afterwards
DownloadFile(url, d, filename, r) ==
    LET n == DownloadName(url, filename) IN
    IF r.raised THEN [ret |-> FALSE, dir |-> d]
    ELSE IF r.status = 200 THEN
        IF RejectsContent(r, n) THEN [ret |-> FALSE, dir |-> d]
        ELSE IF OpenFails(d, n) THEN [ret |-> FALSE, dir |-> d]
        ELSE IF r.body = "complete"
             THEN [ret |-> TRUE,
                   dir |-> Without(d, n) \cup {Entry(n, "file", "fresh")}]
             ELSE [ret |-> FALSE,
                   dir |-> Without(d, n) \cup {Entry(n, "file", "partial")}]
    ELSE [ret |-> FALSE, dir |-> d]

-----------------------------------------------------------------------------
(* clean_garbage_files *)

\* glob.glob(os.path.join(folder, "*")) lists the entry
Listed(e) == ~IsHidden(e.name)

\* os.remove(file_path) succeeds: it raises on a directory
Removable(e) == e.kind = "file"

\* the entry survives clean_garbage_files
Kept(e) == ~Listed(e) \/ IsPdfName(e.name) \/ ~Removable(e)

\* the folder after clean_garbage_files(folder)
CleanGarbage(d) == {e \in d : Kept(e)}

-----------------------------------------------------------------------------
(* The jurisdictions *)

states_to_process ==
    <<"Assam", "UP", "Meghalaya", "Rajasthan", "MP", "Chhattisgarh",
      "Himachal", "Puducherry", "Bihar", "Odisha">>

NStates == Len(states_to_process)

\* the jurisdiction whose process_<state>() is running
Cur == states_to_process[IF si <= NStates THEN si ELSE NStates]

\* process_assam, process_up and process_meghalaya call download_file
\* without a filename
UrlNamed == {"Assam", "UP", "Meghalaya"}

\* the filename the other seven pass (target_filename)
TargetFilename(j) ==
    CASE j = "Rajasthan"    -> <<"Rajasthan_Tariff_Order", ".pdf">>
      [] j = "MP"           -> <<"MP_Tariff_Order", ".pdf">>
      [] j = "Chhattisgarh" -> <<"Chhattisgarh_Tariff_Order", ".pdf">>
      [] j = "Himachal"     -> <<"Himachal_Tariff_Order", ".pdf">>
      [] j = "Puducherry"   -> <<"Puducherry_Tariff_Order", ".pdf">>
      [] j = "Bihar"        -> <<"Bihar_Tariff_Order", ".pdf">>
      [] j = "Odisha"       -> <<"Odisha_Tariff_Order", ".pdf">>
      [] OTHER              -> <<>>

\* the `filename` argument of the jurisdiction's download_file call
FilenameArg(j) == IF j \in UrlNamed THEN <<>> ELSE TargetFilename(j)

\* the except clause of process_assam, process_up and process_meghalaya
\* sets success = False; the other seven leave it as it is
ExceptSuccess(j, s) == IF j \in UrlNamed THEN FALSE ELSE s

\* the browser's default name for the Rajasthan postback download
DefaultDownload == <<"tariff-orders", ".pdf">>

\* the scheme and host every URL starts with
Origin == <<"http:", "/", "/", "host">>

\* the URLs a matched candidate of the jurisdiction carries in Spec
\* (for Rajasthan: the href of the row's Download button, <<>> when the
\* button or its href is missing)
TargetUrls(j) ==
    IF j \in {"UP", "Meghalaya", "Puducherry"}
    THEN {Origin \o <<"/", "order", ".pdf">>,
          Origin \o <<"/", "order", ".pdf", "?", "v">>}
    ELSE {Origin \o <<"/", "order", ".pdf">>, Origin \o <<"/", "view", "?", "id">>}
         \cup (IF j = "Rajasthan" THEN {<<>>} ELSE {})

\* what a target directory may hold before a run: files of earlier runs
\* (under the name this run saves to, or another), a saved page, a hidden
\* temporary file
PriorEntries(j) ==
    {Entry(<<"order", ".pdf">>, "file", "stale"),
     Entry(<<"page", ".htm">>, "file", "stale"),
     Entry(<<".", "tmp">>, "file", "stale")}
    \cup (IF j \in UrlNamed THEN {}
          ELSE {Entry(TargetFilename(j), "file", "stale")})
    \cup (IF j = "Rajasthan"
          THEN {Entry(DefaultDownload, "file", "stale")} ELSE {})

PriorDirs(j) == {d \in SUBSET PriorEntries(j) : Cardinality(d) <= MaxPrior}

\* results[state] = value
Put(f, k, v) == [x \in DOMAIN f \cup {k} |-> IF x = k THEN v ELSE f[x]]

NoResponse == [raised |-> FALSE, status |-> 0, ctype |-> "", body |-> "none"]
\* a date cell that holds no date
NoDate == [ok |-> FALSE, day |-> 0]
\* no row selected (target_row / target_info is None)
NoRow == [text |-> {}, shape |-> "none", href |-> <<>>, date |-> NoDate, idx |-> 0]

\* the variables of SpecMatch, which Spec leaves alone
matchVars == <<rows, matches, sel, seen>>
\* nothing picked yet in the postback wait
NoPick == [name |-> <<>>, among |-> {}]
\* the variables of the Rajasthan view and postback steps
rajVars == <<before, polls, appeared, picked, extraWindows, activeWindow>>

Init ==
    /\ si = 1
    /\ pc = "main"
    /\ results = [x \in {} |-> TRUE]
    /\ success = FALSE
    /\ dir = {}
    /\ dir0 = {}
    /\ driverOpen = 0
    /\ cleaned = FALSE
    /\ path = "none"
    /\ target = <<>>
    /\ fnArg = <<>>
    /\ resp = NoResponse
    /\ saved = <<>>
    /\ attempts = <<>>
    /\ before = {}
    /\ polls = 0
    /\ appeared = FALSE
    /\ picked = NoPick
    /\ extraWindows = 0
    /\ activeWindow = "main"
    /\ rows = 0
    /\ matches = <<>>
    /\ sel = NoRow
    /\ seen = <<>>

-----------------------------------------------------------------------------
(* __main__: the loop over states_to_process *)

\* the loop takes the next state and calls its process_<state>(); the
\* model turns to that state's download folder, whatever it holds
CallProcess ==
    /\ pc = "main"
    /\ si <= NStates
    /\ pc' = "mkdir"
    /\ \E d \in PriorDirs(states_to_process[si]) : dir' = d /\ dir0' = d
    /\ success' = FALSE
    /\ cleaned' = FALSE
    /\ path' = "none"
    /\ target' = <<>>
    /\ fnArg' = FilenameArg(states_to_process[si])
    /\ resp' = NoResponse
    /\ saved' = <<>>
    /\ attempts' = <<>>
    /\ before' = {}
    /\ polls' = 0
    /\ appeared' = FALSE
    /\ picked' = NoPick
    /\ extraWindows' = 0
    /\ activeWindow' = "main"
    /\ UNCHANGED <<si, results, driverOpen, matchVars>>

\* the loop is over: the summary is printed
PrintSummary ==
    /\ pc = "main"
    /\ si > NStates
    /\ pc' = "done"
    /\ UNCHANGED <<si, results, success, dir, dir0, driverOpen, cleaned, path,
                   target, fnArg, resp, saved, attempts, rajVars, matchVars>>

\* where an exception that no handler catches leaves the program
Uncaught == "crashed"

\* get_state_download_path: os.makedirs may raise, outside any try
GetStateDownloadPath ==
    /\ pc = "mkdir"
    /\ \E raised \in BOOLEAN : pc' = IF raised THEN Uncaught ELSE "setup"
    /\ UNCHANGED <<si, results, success, dir, dir0, driverOpen, cleaned, path,
                   target, fnArg, resp, saved, attempts, rajVars, matchVars>>

\* how setup_driver ends: it returns the driver; installing or starting
\* Chrome raises; or Chrome runs and execute_cdp_cmd (SHOW_BROWSER is
\* False) raises
SetupOutcomes == {"ok", "no_chrome", "cdp_raised"}

\* setup_driver, called outside any try
SetupDriver ==
    /\ pc = "setup"
    /\ \E o \in SetupOutcomes :
         /\ pc' = IF o = "ok" THEN "navigate" ELSE Uncaught
         /\ driverOpen' = IF o = "no_chrome" THEN driverOpen ELSE driverOpen + 1
    /\ success' = FALSE
    /\ UNCHANGED <<si, results, dir, dir0, cleaned, path,
                   target, fnArg, resp, saved, attempts, rajVars, matchVars>>

\* driver.get and the waits for the listing: any of them may raise
Navigate ==
    /\ pc = "navigate"
    /\ \E raised \in BOOLEAN :
         /\ pc' = IF raised THEN "except" ELSE "extract"
         /\ path' = IF raised THEN "error" ELSE path
    /\ UNCHANGED <<si, results, success, dir, dir0, driverOpen, cleaned,
                   target, fnArg, resp, saved, attempts, rajVars, matchVars>>

\* mutant: the early `return False` leaves without the finally clause
NoMatchNext_Skip(j) == "ret"

\* mutant: the run goes on to the download although nothing matched
NoMatchNext_Retrieve(j) == "retrieve"

\* where a run goes when nothing on the listing matched: `return False`
\* (Assam, UP, Meghalaya) or the else branch, both into the finally clause
NoMatchNext(j) == "finally"

\* where a run goes with its matched candidate
MatchNext(j) ==
    CASE j = "Rajasthan" -> "raj_direct"
      [] j = "Bihar"     -> "detail"
      [] OTHER           -> "retrieve"

\* reading the rows and selecting the candidate (SpecMatch has the loops):
\* an element access raises, nothing matches (for Assam also: no year link
\* is found), or a candidate is selected
Extract ==
    /\ pc = "extract"
    /\ \/ /\ pc' = "except"
          /\ path' = "error"
          /\ UNCHANGED target
       \/ /\ pc' = NoMatchNext(Cur)
          /\ path' = "nomatch"
          /\ UNCHANGED target
       \/ /\ pc' = MatchNext(Cur)
          /\ path' = "matched"
          /\ \E u \in TargetUrls(Cur) : target' = u
    /\ UNCHANGED <<si, results, success, dir, dir0, driverOpen, cleaned,
                   fnArg, resp, saved, attempts, rajVars, matchVars>>

\* process_bihar: the matched row links to a details page; loading it may
\* raise, it may show no suitable PDF link, or final_pdf_url is found
BiharDetail ==
    /\ pc = "detail"
    /\ \/ /\ pc' = "except"
          /\ path' = "error"
          /\ UNCHANGED target
       \/ /\ pc' = "finally"
          /\ path' = "nodetail"
          /\ UNCHANGED target
       \/ /\ pc' = "retrieve"
          /\ \E u \in TargetUrls(Cur) : target' = u
          /\ UNCHANGED path
    /\ UNCHANGED <<si, results, success, dir, dir0, driverOpen, cleaned,
                   fnArg, resp, saved, attempts, rajVars, matchVars>>

\* success = download_file(url, download_path[, filename=...])
Retrieve ==
    /\ pc = "retrieve"
    /\ \E r \in Responses :
         LET out == DownloadFile(target, dir, fnArg, r) IN
         /\ success' = out.ret
         /\ dir' = out.dir
    /\ saved' = DownloadName(target, fnArg)
    /\ attempts' = Append(attempts, "direct")
    /\ pc' = "finally"
    /\ UNCHANGED <<si, results, dir0, driverOpen, cleaned, path,
                   target, fnArg, resp, rajVars, matchVars>>

\* except Exception as e: ...
Except ==
    /\ pc = "except"
    /\ success' = ExceptSuccess(Cur, success)
    /\ pc' = "finally"
    /\ UNCHANGED <<si, results, dir, dir0, driverOpen, cleaned, path,
                   target, fnArg, resp, saved, attempts, rajVars, matchVars>>

\* finally: driver.quit(), which may raise: nothing catches it and the
\* rest of the finally clause is skipped
DriverQuit ==
    /\ pc = "finally"
    /\ \E raised \in BOOLEAN :
         /\ pc' = IF raised THEN Uncaught ELSE "clean"
         /\ driverOpen' = IF raised THEN driverOpen ELSE driverOpen - 1
    /\ UNCHANGED <<si, results, success, dir, dir0, cleaned, path,
                   target, fnArg, resp, saved, attempts, rajVars, matchVars>>

\* finally: clean_garbage_files(download_path)
Finalize ==
    /\ pc = "clean"
    /\ dir' = CleanGarbage(dir)
    /\ cleaned' = TRUE
    /\ pc' = "ret"
    /\ UNCHANGED <<si, results, success, dir0, driverOpen, path,
                   target, fnArg, resp, saved, attempts, rajVars, matchVars>>

\* finally: return success; the loop stores it in results[state]
Return ==
    /\ pc = "ret"
    /\ results' = Put(results, Cur, success)
    /\ si' = si + 1
    /\ pc' = "main"
    /\ UNCHANGED <<success, dir, dir0, driverOpen, cleaned, path,
                   target, fnArg, resp, saved, attempts, rajVars, matchVars>>

-----------------------------------------------------------------------------
(* process_rajasthan: the three ways to the document of the matched row *)

\* is_pdf(url): the HEAD reply says PDF; or its status is not 200 and the
\* GET reply decides; or (an exception, a 200 that is not PDF) the URL does
IsPdf(url, probe) ==
    CASE probe = "head_pdf"  -> TRUE
      [] probe = "get_pdf"   -> TRUE
      [] probe = "get_other" -> FALSE
      [] OTHER               -> Contains(Lower(url), ".pdf")

Probes == {"head_pdf", "get_pdf", "get_other", "url"}

\* mutant: the run goes on to the next strategy whatever the download gave
AfterAttempt_FallThrough(ok, next) == next

\* `if success: return True`: a strategy that downloaded ends the try
\* block; otherwise the run goes on to the next strategy
AfterAttempt(ok, next) == IF ok THEN "finally" ELSE next

\* the Download button's href, used when it ends in .pdf
RajDirect ==
    /\ pc = "raj_direct"
    /\ IF target # <<>> /\ EndsWith(Lower(target), ".pdf")
       THEN \E r \in Responses :
              LET out == DownloadFile(target, dir, fnArg, r) IN
              /\ success' = out.ret
              /\ dir' = out.dir
              /\ saved' = DownloadName(target, fnArg)
              /\ attempts' = Append(attempts, "direct")
              /\ pc' = AfterAttempt(out.ret, "raj_view")
       ELSE /\ pc' = "raj_view"
            /\ UNCHANGED <<success, dir, saved, attempts>>
    /\ UNCHANGED <<si, results, dir0, driverOpen, cleaned, path,
                   target, fnArg, resp, rajVars, matchVars>>

\* where the try block of the View step can raise: nowhere; finding or
\* clicking the button; reading current_url of the new window; closing
\* it; switching back to main_window
ViewFailures == {"none", "find", "url", "close", "switch"}

\* the addresses the window opened by the View button may show
ViewUrls == TargetUrls("MP")

\* the View button: the click opens some windows; the loop switches to
\* the first that is not main_window, reads its address, closes it and
\* switches back; the address is downloaded when is_pdf accepts it.
\* Anything raised on the way is passed over (except: pass), wherever the
\* driver then stands.
RajView ==
    /\ pc = "raj_view"
    /\ \E opened \in 0..MaxWindows, fail \in ViewFailures,
          u \in ViewUrls, probe \in Probes :
         /\ (fail = "find") => (opened = 0)
         /\ (fail \in {"url", "close", "switch"}) => (opened > 0)
         /\ LET visited == opened > 0
                closedOne == visited /\ fail \in {"none", "switch"}
                pdf_url == IF visited /\ fail = "none" /\ IsPdf(u, probe)
                           THEN u ELSE <<>>
            IN /\ extraWindows' = IF closedOne THEN opened - 1 ELSE opened
               /\ activeWindow' =
                    CASE visited /\ fail \in {"url", "close"} -> "new"
                      [] visited /\ fail = "switch"           -> "closed"
                      [] OTHER                                -> "main"
               /\ IF pdf_url # <<>>
                  THEN \E r \in Responses :
                         LET out == DownloadFile(pdf_url, dir, fnArg, r) IN
                         /\ target' = pdf_url
                         /\ success' = out.ret
                         /\ dir' = out.dir
                         /\ saved' = DownloadName(pdf_url, fnArg)
                         /\ attempts' = Append(attempts, "view")
                         /\ pc' = AfterAttempt(out.ret, "raj_postback")
                  ELSE /\ pc' = "raj_postback"
                       /\ UNCHANGED <<success, dir, saved, attempts, target>>
    /\ UNCHANGED <<si, results, dir0, driverOpen, cleaned, path,
                   fnArg, resp, before, polls, appeared, picked, matchVars>>

\* the folder after `if os.path.exists(p): try: os.remove(p) except: pass`
RemoveIfExists(d, n, fails) == IF fails THEN d ELSE Without(d, n)

\* the postback: the old target file is removed, the folder is listed and
\* the LinkButton is clicked.  Finding or clicking it may raise, and it
\* does when the driver is not switched to the window target_row is in.
RajPostback ==
    /\ pc = "raj_postback"
    /\ \E fails \in BOOLEAN, raised \in BOOLEAN :
         /\ Exists(dir, TargetFilename(Cur)) \/ ~fails
         /\ (activeWindow # "main") => raised
         /\ dir' = RemoveIfExists(dir, TargetFilename(Cur), fails)
         /\ before' = Names(dir')
         /\ pc' = IF raised THEN "except" ELSE "raj_wait"
         /\ attempts' = IF raised THEN attempts ELSE Append(attempts, "postback")
         /\ path' = IF raised THEN "error" ELSE path
    /\ saved' = TargetFilename(Cur)
    /\ polls' = 0
    /\ appeared' = FALSE
    /\ UNCHANGED <<si, results, success, dir0, driverOpen, cleaned,
                   target, fnArg, resp, picked, extraWindows, activeWindow,
                   matchVars>>

\* the browser's file while the download is in progress
PartFile == <<"Unconfirmed", ".crdownload">>

\* the name the browser gives a download when the default name is taken
SecondDownload == <<"tariff-orders (1)", ".pdf">>

\* the name the browser saves the finished download under: the default
\* name, or its "(1)" variant when the default is taken
BrowserName(d) ==
    IF Exists(d, DefaultDownload) THEN SecondDownload ELSE DefaultDownload

\* the browser, while the script sleeps: it starts the part file, or it
\* finishes the download
BrowserWrites ==
    /\ pc = "raj_wait"
    /\ \/ /\ ~Exists(dir, PartFile)
          /\ ~Exists(dir, SecondDownload)
          /\ dir' = dir \cup {Entry(PartFile, "file", "partial")}
       \/ /\ Exists(dir, PartFile)
          /\ dir' = Without(dir, PartFile)
                      \cup {Entry(BrowserName(dir), "file", "fresh")}
    /\ appeared' = TRUE
    /\ UNCHANGED <<si, pc, results, success, dir0, driverOpen, cleaned, path,
                   target, fnArg, resp, saved, attempts, before, polls,
                   picked, extraWindows, activeWindow, matchVars>>

\* new_files of one iteration of the wait loop
NewFiles(d, bf) ==
    LET new == {n \in Names(d) \ bf :
                   /\ IsPdfName(n)
                   /\ ~EndsWith(n, ".crdownload")
                   /\ ~EndsWith(n, ".tmp")}
    IN IF new = {} /\ Exists(d, DefaultDownload) THEN {DefaultDownload}
       ELSE new

\* the folder after os.rename(downloaded_path, target_file_path)
Rename(d, from, to) ==
    LET e == CHOOSE x \in d : x.name = from IN
    Without(Without(d, from), to) \cup {Entry(to, e.kind, e.content)}

\* one iteration of `for i in range(60)`: sleep, list the folder, and
\* take new_files[0] (the list is built from a set: any of them) if there
\* is one, renaming it to the target name (a failing rename is passed over)
RajPoll ==
    /\ pc = "raj_wait"
    /\ polls < WaitPolls
    /\ LET new == NewFiles(dir, before) IN
       IF new # {}
       THEN /\ \E f \in new, renamed \in BOOLEAN :
                 /\ dir' = IF f # TargetFilename(Cur) /\ renamed
                           THEN Rename(dir, f, TargetFilename(Cur))
                           ELSE dir
                 /\ picked' = [name |-> f, among |-> new]
            /\ success' = TRUE
            /\ pc' = "finally"
            /\ UNCHANGED polls
       ELSE /\ polls' = polls + 1
            /\ pc' = IF polls + 1 = WaitPolls THEN "finally" ELSE "raj_wait"
            /\ UNCHANGED <<dir, success, picked>>
    /\ UNCHANGED <<si, results, dir0, driverOpen, cleaned, path,
                   target, fnArg, resp, saved, attempts, before, appeared,
                   extraWindows, activeWindow, matchVars>>

Next ==
    \/ CallProcess
    \/ PrintSummary
    \/ GetStateDownloadPath
    \/ SetupDriver
    \/ Navigate
    \/ Extract
    \/ BiharDetail
    \/ Retrieve
    \/ RajDirect
    \/ RajView
    \/ RajPostback
    \/ BrowserWrites
    \/ RajPoll
    \/ Except
    \/ DriverQuit
    \/ Finalize
    \/ Return

Spec == Init /\ [][Next]_vars

-----------------------------------------------------------------------------
(* download_file on its own: any URL, any filename argument, any response *)

UrlTokens == {"a", "/", "?", ".pdf", ".PDF", ".htm"}

\* the token sequences of length at most n
RECURSIVE SeqsUpTo(_, _)
SeqsUpTo(T, n) ==
    IF n = 0 THEN {<<>>}
    ELSE LET shorter == SeqsUpTo(T, n - 1) IN
         shorter \cup {Append(q, t) : q \in shorter, t \in T}

\* the URLs: the origin, then nothing, a path or a query string
Urls ==
    {Origin \o q : q \in {x \in SeqsUpTo(UrlTokens, MaxUrlLen) :
                              x = <<>> \/ x[1] \in {"/", "?"}}}

\* the filename arguments: none, a target_filename, a name without the
\* suffix, a name with the suffix in capitals
FilenameArgs ==
    {<<>>, TargetFilename("MP"), <<"name">>, <<"name", ".PDF">>}

\* the folder before the call: empty, or the name the call saves under is
\* taken by the file of an earlier run, or by a directory
FoldersFor(n) ==
    {{}, {Entry(n, "file", "stale")}, {Entry(n, "dir", "dir")}}

InitDownload ==
    /\ pc = "dl_call"
    /\ target \in Urls
    /\ fnArg \in FilenameArgs
    /\ dir \in FoldersFor(DownloadName(target, fnArg))
    /\ dir0 = dir
    /\ si = 1
    /\ results = [x \in {} |-> TRUE]
    /\ success = FALSE
    /\ driverOpen = 0
    /\ cleaned = FALSE
    /\ path = "none"
    /\ resp = NoResponse
    /\ saved = <<>>
    /\ attempts = <<>>
    /\ before = {}
    /\ polls = 0
    /\ appeared = FALSE
    /\ picked = NoPick
    /\ extraWindows = 0
    /\ activeWindow = "main"
    /\ rows = 0
    /\ matches = <<>>
    /\ sel = NoRow
    /\ seen = <<>>

\* one call of download_file(target, folder, fnArg)
DownloadCall ==
    /\ pc = "dl_call"
    /\ \E r \in Responses :
         LET out == DownloadFile(target, dir, fnArg, r) IN
         /\ resp' = r
         /\ success' = out.ret
         /\ dir' = out.dir
    /\ saved' = DownloadName(target, fnArg)
    /\ attempts' = Append(attempts, "direct")
    /\ pc' = "dl_ret"
    /\ UNCHANGED <<si, results, dir0, driverOpen, cleaned, path,
                   target, fnArg, rajVars, matchVars>>

NextDownload == DownloadCall

SpecDownload == InitDownload /\ [][NextDownload]_vars

-----------------------------------------------------------------------------
(* clean_garbage_files on its own: any folder *)

\* what a folder may hold: documents, a saved page, download leftovers,
\* a hidden temporary file, sub-directories
FolderEntries ==
    {Entry(<<"order", ".pdf">>, "file", "stale"),
     Entry(<<"SCAN", ".PDF">>, "file", "stale"),
     Entry(<<"page", ".htm">>, "file", "stale"),
     Entry(<<"Unconfirmed", ".crdownload">>, "file", "partial"),
     Entry(<<"a", ".tmp">>, "file", "partial"),
     Entry(<<".", "tmp">>, "file", "partial"),
     Entry(<<"old">>, "dir", "dir"),
     Entry(<<"archive", ".pdf">>, "dir", "dir")}

InitClean ==
    /\ pc = "cl_call"
    /\ dir \in SUBSET FolderEntries
    /\ dir0 = dir
    /\ si = 1
    /\ results = [x \in {} |-> TRUE]
    /\ success = FALSE
    /\ driverOpen = 0
    /\ cleaned = FALSE
    /\ path = "none"
    /\ target = <<>>
    /\ fnArg = <<>>
    /\ resp = NoResponse
    /\ saved = <<>>
    /\ attempts = <<>>
    /\ before = {}
    /\ polls = 0
    /\ appeared = FALSE
    /\ picked = NoPick
    /\ extraWindows = 0
    /\ activeWindow = "main"
    /\ rows = 0
    /\ matches = <<>>
    /\ sel = NoRow
    /\ seen = <<>>

\* one call of clean_garbage_files(folder), and a second one after it
CleanCall ==
    /\ pc \in {"cl_call", "cl_ret"}
    /\ dir' = CleanGarbage(dir)
    /\ cleaned' = TRUE
    /\ pc' = IF pc = "cl_call" THEN "cl_ret" ELSE "cl_again"
    /\ UNCHANGED <<si, results, success, dir0, driverOpen, path,
                   target, fnArg, resp, saved, attempts, rajVars, matchVars>>

NextClean == CleanCall

SpecClean == InitClean /\ [][NextClean]_vars

-----------------------------------------------------------------------------
(* The selection loops: rows and links of a listing page *)

\* A row's text is the set of the keywords it shows, each as the page
\* writes it: in capitals or in small letters.
Word(k, c) == <<k, c>>

\* str.upper() on one word, and on a text
UpperWord(w) == Word(w[1], "upper")
Upper(t) == {UpperWord(w) : w \in t}

\* "K" in text.upper()
Has(k, t) == Word(k, "upper") \in Upper(t)

\* the keywords a jurisdiction's loop looks for
Keywords(j) ==
    CASE j = "Assam"        -> {"TARIFF ORDER", "APDCL"}
      [] j = "UP"           -> {"STATE DISCOMS", "TARIFF ORDER", "SCANNED"}
      [] j = "Meghalaya"    -> {"AGGREGATE REVENUE", "CORRIGENDUM"}
      [] j = "Rajasthan"    -> {"AGGREGATE REVENUE", "DISCOMS", "PETITION"}
      [] j = "MP"           -> {"TARIFF ORDER", "PETITION", "CORRIGENDUM"}
      [] j = "Chhattisgarh" -> {"TARIFF ORDER", "CSPDCL", "PETITION",
                                "CORRIGENDUM"}
      [] j = "Himachal"     -> {"AGGREGATE", "REVENUE", "DISCOMS", "HPSEBL",
                                "PETITION"}
      [] j = "Puducherry"   -> {"AGGREGATE", "REVENUE", "TRUE-UP", "PETITION",
                                "CORRIGENDUM", "DISCOMS", "PED",
                                "ELECTRICITY DEPARTMENT"}
      [] j = "Bihar"        -> {"TARIFF ORDER", "DISCOMS", "SBPDCL", "PETITION"}
      [] OTHER              -> {"AGGREGATE", "REVENUE", "REQUIREMENT",
                                "PETITION", "DISCOM"}

\* the keyword condition of each loop's `if`
TextMatches(j, t) ==
    CASE j = "Assam" ->
           Has("TARIFF ORDER", t) /\ Has("APDCL", t)
      [] j = "UP" ->
           /\ Has("STATE DISCOMS", t) /\ Has("TARIFF ORDER", t)
           /\ ~Has("SCANNED", t)
      [] j = "Meghalaya" ->
           Has("AGGREGATE REVENUE", t) /\ ~Has("CORRIGENDUM", t)
      [] j = "Rajasthan" ->
           /\ Has("AGGREGATE REVENUE", t) /\ Has("DISCOMS", t)
           /\ ~Has("PETITION", t)
      [] j = "MP" ->
           /\ Has("TARIFF ORDER", t)
           /\ ~Has("PETITION", t) /\ ~Has("CORRIGENDUM", t)
      [] j = "Chhattisgarh" ->
           /\ Has("TARIFF ORDER", t) /\ Has("CSPDCL", t)
           /\ ~Has("PETITION", t) /\ ~Has("CORRIGENDUM", t)
      [] j = "Himachal" ->
           /\ Has("AGGREGATE", t) /\ Has("REVENUE", t)
           /\ (Has("DISCOMS", t) \/ Has("HPSEBL", t))
           /\ ~Has("PETITION", t)
      [] j = "Puducherry" ->
           LET has_keywords == /\ Has("AGGREGATE", t) /\ Has("REVENUE", t)
                               /\ Has("TRUE-UP", t)
               is_excluded == Has("PETITION", t) \/ Has("CORRIGENDUM", t)
               has_discom_context ==
                   \/ Has("DISCOMS", t) \/ Has("PED", t)
                   \/ Has("ELECTRICITY DEPARTMENT", t)
           IN has_keywords /\ ~is_excluded
      [] j = "Bihar" ->
           /\ Has("TARIFF ORDER", t)
           /\ (Has("DISCOMS", t) \/ Has("SBPDCL", t))
           /\ ~Has("PETITION", t)
      [] OTHER ->
           /\ Has("AGGREGATE", t) /\ Has("REVENUE", t)
           /\ Has("REQUIREMENT", t) /\ ~Has("PETITION", t)

\* str.upper() on one URL token
UpperTok(t) == IF t = "discom_order" THEN "DISCOM_ORDER" ELSE t

\* "DISCOM" in url.upper()
UrlHasDiscom(url) == \E i \in 1..Len(url) : UpperTok(url[i]) = "DISCOM_ORDER"

\* the row gives what the loop needs besides the keywords: enough cells,
\* the link element, the href
Structure(j, r) ==
    CASE j \in {"Assam", "MP", "Chhattisgarh", "Puducherry"} -> r.shape = "ok"
      [] j = "UP" -> r.href # <<>> /\ Contains(Lower(r.href), ".pdf")
      [] j = "Meghalaya" -> TRUE
      [] j = "Rajasthan" -> r.shape # "short"
      [] j \in {"Himachal", "Bihar"} -> r.shape # "nolink"
      [] OTHER -> r.shape # "nolink"
                    /\ (Has("DISCOM", r.text) \/ UrlHasDiscom(r.href))

\* the loop takes the row: appends it to matches, or sets the target
Accepts(j, r) == TextMatches(j, r.text) /\ Structure(j, r)

\* process_odisha: url.upper() on a link without href raises
Raises(j, r) ==
    /\ j = "Odisha"
    /\ TextMatches(j, r.text)
    /\ r.shape # "nolink"
    /\ ~Has("DISCOM", r.text)
    /\ r.href = <<>>

\* the loops that collect a `matches` list and choose from it afterwards
Collecting == {"Assam", "UP", "Meghalaya"}

\* datetime.min, which stands in for a date that does not parse
DateMin == 0

\* order_date: datetime.strptime(date_str, "%d.%m.%Y"), or datetime.min
OrderDate(c) == IF c.ok THEN c.day ELSE DateMin

\* x goes after every element of the sorted list that does not sort
\* after it: the sort is stable
RECURSIVE InsertDesc(_, _)
InsertDesc(sorted, x) ==
    IF sorted = <<>> THEN <<x>>
    ELSE IF OrderDate(Head(sorted).date) >= OrderDate(x.date)
         THEN <<Head(sorted)>> \o InsertDesc(Tail(sorted), x)
         ELSE <<x>> \o sorted

\* matches.sort(key=lambda x: x['date'], reverse=True)
RECURSIVE SortDesc(_)
SortDesc(q) ==
    IF q = <<>> THEN <<>>
    ELSE InsertDesc(SortDesc(SubSeq(q, 1, Len(q) - 1)), q[Len(q)])

\* mutant: the last of the matches is taken
PickTarget_Last(j, m) == m[Len(m)]

\* target = matches[0], after the sort in process_assam
PickTarget(j, m) == IF j = "Assam" THEN SortDesc(m)[1] ELSE m[1]

\* the texts a row of the jurisdiction's listing may show
Cased(T, c) == {Word(k, c) : k \in T}
Texts(j) == {Cased(T, c) : T \in SUBSET Keywords(j), c \in {"upper", "lower"}}

\* the shapes of a row: all it should have, too few cells, no link element
Shapes(j) ==
    CASE j \in {"Assam", "MP", "Chhattisgarh", "Puducherry"} ->
           {"ok", "short", "nolink"}
      [] j = "Rajasthan" -> {"ok", "short"}
      [] j \in {"Himachal", "Bihar", "Odisha"} -> {"ok", "nolink"}
      [] OTHER -> {"ok"}

\* the href of a row's link (<<>>: the attribute is None)
Hrefs(j) ==
    CASE j = "UP" -> {<<>>, Origin \o <<"/", "order", ".pdf">>,
                      Origin \o <<"/", "order", ".PDF">>,
                      Origin \o <<"/", "view", "?", "id">>}
      [] j = "Odisha" -> {<<>>, Origin \o <<"/", "order", ".pdf">>,
                          Origin \o <<"/", "discom_order", ".pdf">>}
      [] OTHER -> {Origin \o <<"/", "order", ".pdf">>}

\* the date cells: a date, as days from 01.01.0001, or no date
DateCells(j) ==
    IF j = "Assam"
    THEN {NoDate} \cup {[ok |-> TRUE, day |-> d] : d \in 0..MaxDate}
    ELSE {NoDate}

\* the rows (links, for UP and Meghalaya) a listing may show
RowsOf(j) ==
    {[text |-> t, shape |-> sh, href |-> IF sh = "nolink" THEN <<>> ELSE h,
      date |-> d] :
        t \in Texts(j), sh \in Shapes(j), h \in Hrefs(j), d \in DateCells(j)}

\* the row as the loop's candidate: the row and its place in the listing
Candidate(r, i) ==
    [text |-> r.text, shape |-> r.shape, href |-> r.href, date |-> r.date,
     idx |-> i]

\* what the history keeps of a consumed row
Mark(j, r) ==
    [ok |-> TextMatches(j, r.text), got |-> Accepts(j, r), date |-> r.date]

InitMatch ==
    /\ pc = "m_loop"
    /\ si \in 1..NStates
    /\ rows = 0
    /\ matches = <<>>
    /\ sel = NoRow
    /\ seen = <<>>
    /\ results = [x \in {} |-> TRUE]
    /\ success = FALSE
    /\ dir = {}
    /\ dir0 = {}
    /\ driverOpen = 0
    /\ cleaned = FALSE
    /\ path = "none"
    /\ target = <<>>
    /\ fnArg = <<>>
    /\ resp = NoResponse
    /\ saved = <<>>
    /\ attempts = <<>>
    /\ before = {}
    /\ polls = 0
    /\ appeared = FALSE
    /\ picked = NoPick
    /\ extraWindows = 0
    /\ activeWindow = "main"

\* the variables of Spec, which SpecMatch leaves alone
runVars == <<results, success, dir, dir0, driverOpen, cleaned, path,
             target, fnArg, resp, saved, attempts, rajVars>>

\* one iteration of `for row in rows` (`for link in links`)
LoopRow ==
    /\ pc \in {"m_loop", "m_prev"}
    /\ Len(seen) < MaxRows
    /\ \E r \in RowsOf(Cur) :
         /\ seen' = Append(seen, Mark(Cur, r))
         /\ rows' = rows + 1
         /\ IF Raises(Cur, r)
            THEN pc' = "m_error" /\ UNCHANGED <<matches, sel>>
            ELSE IF ~Accepts(Cur, r)
            THEN UNCHANGED <<pc, matches, sel>>
            ELSE IF Cur \in Collecting
            THEN /\ matches' = Append(matches, Candidate(r, Len(seen) + 1))
                 /\ UNCHANGED <<pc, sel>>
            ELSE /\ sel' = Candidate(r, Len(seen) + 1)
                 /\ pc' = "m_done"
                 /\ UNCHANGED matches
    /\ UNCHANGED <<si, runVars>>

\* the listing has no more rows: the loop ends.  process_up, with nothing
\* matched, goes through the links of "Previous Years" when that link is
\* there
LoopEnds ==
    /\ pc \in {"m_loop", "m_prev"}
    /\ \/ /\ Cur \notin Collecting
          /\ pc' = "m_done"
          /\ UNCHANGED rows
       \/ /\ Cur \in Collecting
          /\ pc' = "m_rank"
          /\ UNCHANGED rows
       \/ /\ Cur = "UP" /\ pc = "m_loop" /\ matches = <<>>
          /\ pc' = "m_prev"
          /\ rows' = 0
    /\ UNCHANGED <<si, matches, sel, seen, runVars>>

\* if not matches: return False; else the target is chosen from matches
Rank ==
    /\ pc = "m_rank"
    /\ sel' = IF matches = <<>> THEN NoRow ELSE PickTarget(Cur, matches)
    /\ pc' = "m_done"
    /\ UNCHANGED <<si, rows, matches, seen, runVars>>

NextMatch == LoopRow \/ LoopEnds \/ Rank

SpecMatch == InitMatch /\ [][NextMatch]_vars

-----------------------------------------------------------------------------
(* process_bihar on its own: the scan of the details page *)

\* the file names the links of a details page carry
DetailNames ==
    {"TO_2024", "Chart_2024", "Tariff_Order_Chart", "Annexure", "SCHEDULE"}

\* the words the scan looks for that a token, lower-cased, contains
DetailWords(t) ==
    CASE t = "TO_2024"            -> {"to_"}
      [] t = "Chart_2024"         -> {"chart"}
      [] t = "Tariff_Order_Chart" -> {"tariff", "order", "chart"}
      [] t = "SCHEDULE"           -> {"schedule"}
      [] OTHER                    -> {}

\* w in url.lower()
UrlHas(url, w) == \E i \in 1..Len(url) : w \in DetailWords(url[i])

\* the references a details page may show: addresses of PDF files, or of
\* a viewer that carries the file's address in its query
DetailLinks ==
    {Origin \o <<"/", n, ".pdf">> : n \in DetailNames}
    \cup {Origin \o <<"/", "viewer.html", "?", "file=", "/", n, ".pdf",
                      "&", "page">> : n \in {"TO_2024", "Chart_2024"}}

\* s.split(t)[1]
SecondPart(s, t) ==
    FirstPart(SubSeq(s, SetMin(Positions(s, t)) + 1, Len(s)), t)

\* the address inside a viewer address:
\* unquote(url.split("file=")[1].split("&")[0])
Unwrap(url) ==
    IF Contains(url, "viewer.html") /\ Contains(url, "file=")
    THEN FirstPart(SecondPart(url, "file="), "&")
    ELSE url

\* is_chart = "chart" in url_lower or "schedule" in url_lower
IsChart(url) == UrlHas(url, "chart") \/ UrlHas(url, "schedule")

\* is_order = "order" in url_lower or "to_" in url_lower
\*            or "tariff" in url_lower
IsOrder(url) == UrlHas(url, "order") \/ UrlHas(url, "to_") \/ UrlHas(url, "tariff")

\* mutant: the scan stops at the first link that looks like an order,
\* chart or not
TakesAndStops_AnyOrder(is_order, is_chart) == is_order

\* `if is_order and not is_chart:` the link is taken and the scan stops
TakesAndStops(is_order, is_chart) == is_order /\ ~is_chart

\* pdf_links: the <a> links, or when there are none the <embed> and
\* <iframe> references
PdfLinks(anchors, embeds) == IF anchors = <<>> THEN embeds ELSE anchors

InitDetail ==
    /\ pc = "d_find"
    /\ si = 9
    /\ rows = 0
    /\ matches = <<>>
    /\ sel = NoRow
    /\ seen = <<>>
    /\ results = [x \in {} |-> TRUE]
    /\ success = FALSE
    /\ dir = {}
    /\ dir0 = {}
    /\ driverOpen = 0
    /\ cleaned = FALSE
    /\ path = "none"
    /\ target = <<>>
    /\ fnArg = <<>>
    /\ resp = NoResponse
    /\ saved = <<>>
    /\ attempts = <<>>
    /\ before = {}
    /\ polls = 0
    /\ appeared = FALSE
    /\ picked = NoPick
    /\ extraWindows = 0
    /\ activeWindow = "main"

\* the two find_elements calls that give pdf_links
FindLinks ==
    /\ pc = "d_find"
    /\ \E anchors \in SeqsUpTo(DetailLinks, MaxLinks),
          embeds \in {<<>>} \cup {<<l>> : l \in DetailLinks} :
         matches' = PdfLinks(anchors, embeds)
    /\ pc' = "d_loop"
    /\ UNCHANGED <<si, rows, sel, seen, runVars>>

\* one iteration of `for link in pdf_links`
ScanLink ==
    /\ pc = "d_loop"
    /\ rows < Len(matches)
    /\ rows' = rows + 1
    /\ LET link == matches[rows + 1]
           url == Unwrap(link)
       IN IF link = <<>>
          THEN UNCHANGED <<pc, target, sel>>
          ELSE IF TakesAndStops(IsOrder(url), IsChart(url))
          THEN /\ target' = url
               /\ sel' = [NoRow EXCEPT !.href = url, !.idx = rows + 1]
               /\ pc' = "d_done"
          ELSE IF IsOrder(url)
          THEN /\ target' = url
               /\ sel' = [NoRow EXCEPT !.href = url, !.idx = rows + 1]
               /\ UNCHANGED pc
          ELSE UNCHANGED <<pc, target, sel>>
    /\ UNCHANGED <<si, results, success, dir, dir0, driverOpen, cleaned, path,
                   fnArg, resp, saved, attempts, rajVars, matches, seen>>

\* pdf_links has no more links
ScanEnds ==
    /\ pc = "d_loop"
    /\ rows = Len(matches)
    /\ pc' = "d_done"
    /\ UNCHANGED <<si, rows, matches, sel, seen, runVars>>

NextDetail == FindLinks \/ ScanLink \/ ScanEnds

SpecDetail == InitDetail /\ [][NextDetail]_vars

-----------------------------------------------------------------------------
(* The claims about the orchestrator and the pipeline (Spec) *)

\* the program has stopped: the summary was printed, or an exception that
\* nothing caught ended it
Stopped == pc \in {"done", Uncaught}

\* the jurisdictions of the configured list
Configured == {states_to_process[i] : i \in 1..NStates}

\* the run of the current jurisdiction has reached its `return success`
Returning == pc = "ret"

\* C1: once the program has stopped, the results mapping holds an entry
\* for every configured jurisdiction, whatever raised during the runs
\* (creating the folder, starting the browser and quitting it included).
C1_EveryJurisdictionHasResult ==
    Stopped => DOMAIN results = Configured

\* C2: whenever a jurisdiction's result is returned to the orchestrator,
\* clean_garbage_files has run on its folder in that run, on every path
\* (success, nothing matched, failed retrieval, exception), and the folder
\* is as the cleanup leaves it.
C2_CleanupBeforeResult ==
    (Returning \/ (pc \in {"main", "done"} /\ si > 1))
        => (cleaned /\ dir = CleanGarbage(dir))

\* C2 witness: a run that raised inside the try block returns its result
\* after the cleanup has removed something
C2_Witness ==
    /\ Returning
    /\ path = "error"
    /\ cleaned
    /\ dir # dir0

\* the name the run's document is expected under: the jurisdiction's
\* target_filename, or (Assam, UP, Meghalaya, which pass none) the name
\* download_file derived
CanonicalName == IF Cur \in UrlNamed THEN saved ELSE TargetFilename(Cur)

\* C3: after a run that reports success the folder holds exactly one
\* document, under the canonical name, and nothing else (no partial
\* download, no non-document entry), whatever it held before.
C3_ExactlyTheCanonicalFile ==
    (Returning /\ success)
        => /\ Names(Pdfs(dir)) = {CanonicalName}
           /\ \A e \in dir : IsPdfName(e.name) /\ e.content # "partial"

\* C5 as stated: when nothing on the listing matched, the result is
\* Failed, no retrieval was attempted, no file was written, and the folder
\* holds no document afterwards.
C5_NoMatchLeavesNoDocument ==
    (Returning /\ path = "nomatch")
        => /\ ~success
           /\ attempts = <<>>
           /\ dir \subseteq dir0
           /\ Pdfs(dir) = {}

\* C5 as amended: when nothing on the listing matched, the run never
\* reports success (the result it returns is Failed), no retrieval is
\* attempted, no file is written, and the documents in the folder are
\* exactly those it held before the run.
C5_NoMatchLeavesDocumentsAsTheyWere ==
    (path = "nomatch")
        => /\ ~success
           /\ attempts = <<>>
           /\ dir \subseteq dir0
           /\ Pdfs(dir) = Pdfs(dir0)
           /\ (pc = "main" => results[states_to_process[si - 1]] = FALSE)

\* C5 witness: a run in which nothing matched returns Failed from a folder
\* that held a document and something the cleanup removed
C5_Witness ==
    /\ Returning
    /\ path = "nomatch"
    /\ Pdfs(dir0) # {}
    /\ dir # dir0

-----------------------------------------------------------------------------
(* The claims about download_file (SpecDownload) *)

\* download_file has returned
Downloaded == pc = "dl_ret"

\* C4: a transfer answered with status 200 and a declared content type
\* that is not PDF is rejected: download_file returns False and the folder
\* is as it was.
C4_NonPdfContentRejected ==
    (Downloaded /\ ~resp.raised /\ resp.status = 200
       /\ resp.ctype # "" /\ ~IsPdfCT(resp.ctype))
        => (~success /\ dir = dir0)

\* C6: after a retrieval attempt that failed, the folder holds no file of
\* an earlier run under the name the attempt was to save to.
C6_StaleFileRemoved ==
    (Downloaded /\ ~success)
        => ~\E e \in dir : e.name = saved /\ e.content = "stale"

\* the URL's path: what precedes its query string
UrlPath(url) == FirstPart(url, "?")

\* C10: the name download_file saves under ends in the document suffix,
\* and when it is taken from the URL it is the last segment of the URL's
\* path: nothing of the query string is part of it.
C10_SavedNameIsPdfAndFromPath ==
    Downloaded
        => /\ IsPdfName(saved)
           /\ (fnArg = <<>>
                 => saved = ForcePdf(LastPart(UrlPath(target), "/")))

\* C13: a call of download_file that returns False leaves the folder as
\* it was: no new file, no file changed.
C13_FailedTransferWritesNothing ==
    (Downloaded /\ ~success) => dir = dir0

-----------------------------------------------------------------------------
(* The claim about clean_garbage_files (SpecClean) *)

\* C9: after clean_garbage_files returns, every entry of the folder ends
\* in the document suffix, and every entry that did so before the call is
\* still there.
C9_OnlyDocumentsRemain ==
    (pc = "cl_ret")
        => /\ \A e \in dir : IsPdfName(e.name)
           /\ Pdfs(dir0) \subseteq dir

-----------------------------------------------------------------------------
(* The claims about the selection (SpecMatch) *)

\* a candidate has been selected
Selected == pc = "m_done" /\ sel # NoRow

\* the keywords each jurisdiction's rule requires, as the code states the
\* rule: one set per requirement, any keyword of the set meets it
RequiredKeywords(j) ==
    CASE j = "Assam"        -> {{"TARIFF ORDER"}, {"APDCL"}}
      [] j = "UP"           -> {{"STATE DISCOMS"}, {"TARIFF ORDER"}}
      [] j = "Meghalaya"    -> {{"AGGREGATE REVENUE"}}
      [] j = "Rajasthan"    -> {{"AGGREGATE REVENUE"}, {"DISCOMS"}}
      [] j = "MP"           -> {{"TARIFF ORDER"}}
      [] j = "Chhattisgarh" -> {{"TARIFF ORDER"}, {"CSPDCL"}}
      [] j = "Himachal"     -> {{"DISCOMS", "HPSEBL"}, {"AGGREGATE"},
                                {"REVENUE"}}
      [] j = "Puducherry"   -> {{"DISCOMS", "PED", "ELECTRICITY DEPARTMENT"},
                                {"AGGREGATE"}, {"REVENUE"}, {"TRUE-UP"}}
      [] j = "Bihar"        -> {{"TARIFF ORDER"}, {"DISCOMS", "SBPDCL"}}
      [] OTHER              -> {{"AGGREGATE"}, {"REVENUE"}, {"REQUIREMENT"}}

\* the keywords each jurisdiction's rule excludes
ExcludedKeywords(j) ==
    CASE j = "Assam"        -> {}
      [] j = "UP"           -> {"SCANNED"}
      [] j = "Meghalaya"    -> {"CORRIGENDUM"}
      [] j \in {"MP", "Chhattisgarh", "Puducherry"}
                            -> {"PETITION", "CORRIGENDUM"}
      [] OTHER              -> {"PETITION"}

\* C7: the selected candidate's text, compared without regard to case,
\* shows every keyword its jurisdiction's rule requires and none of those
\* it excludes.
C7_SelectedMeetsTheRule ==
    Selected
        => /\ \A g \in RequiredKeywords(Cur) : \E k \in g : Has(k, sel.text)
           /\ \A k \in ExcludedKeywords(Cur) : ~Has(k, sel.text)

\* the candidates of the explicit-date ranking
Ranked == {matches[i] : i \in 1..Len(matches)}

\* C8: in the explicit-date ranking of Assam the selected candidate is a
\* matching row with the latest parsed date, the first of them in row
\* order, and it is never a row whose date did not parse when a matching
\* row has a date that does.
C8_LatestDateWins ==
    (Selected /\ Cur = "Assam")
        => /\ sel \in Ranked
           /\ \A m \in Ranked :
                \/ OrderDate(m.date) < OrderDate(sel.date)
                \/ OrderDate(m.date) = OrderDate(sel.date) /\ sel.idx <= m.idx
           /\ ((\E m \in Ranked : m.date.ok) => sel.date.ok)

-----------------------------------------------------------------------------
(* The claims about the browser and the links (Spec) *)

\* the run of the current jurisdiction is over: it returned, or an
\* exception nothing caught ended it with the program
RunExited == pc \in {"ret", "main", "done", Uncaught}

\* C14: never more than one browser is open, and once a jurisdiction's
\* run is over, by return or by exception, its browser has been closed.
C14_BrowserClosedOnExit ==
    /\ driverOpen <= 1
    /\ RunExited => driverOpen = 0

\* a run is under way whose last retrieval went through download_file
\* with the matched candidate's own link
DirectAttempted ==
    /\ si <= NStates
    /\ pc # "main"
    /\ Cur # "Bihar"
    /\ attempts # <<>>
    /\ attempts[Len(attempts)] = "direct"

\* C18: a matched candidate's link that was handed to download_file
\* ends in the document suffix.
C18_DirectLinkHasSuffix ==
    DirectAttempted => EndsWith(Lower(target), ".pdf")

-----------------------------------------------------------------------------
(* The claims about the strategies of process_rajasthan (Spec) *)

\* process_rajasthan is running
InRajasthan == si <= NStates /\ pc # "main" /\ Cur = "Rajasthan"

\* the place of a strategy in the order of the code
StrategyOrder(a) ==
    CASE a = "direct" -> 1
      [] a = "view"   -> 2
      [] OTHER        -> 3

\* every strategy came to nothing: the postback wait ran out, or the run
\* ended in the except clause
AllFailed == polls = WaitPolls \/ path = "error"

\* C19: in a Rajasthan run the strategies are attempted in the order
\* direct, view, postback, none of them twice; while a later strategy is
\* still to come no download has succeeded; and when all fail the run
\* returns Failed.
C19_StrategiesInOrderOnce ==
    InRajasthan
        => /\ \A i, k \in 1..Len(attempts) :
                i < k => StrategyOrder(attempts[i]) < StrategyOrder(attempts[k])
           /\ (pc \in {"raj_view", "raj_postback", "raj_wait"} => ~success)
           /\ ((Returning /\ AllFailed) => ~success)

\* C19 witness: a run that tried all three strategies in turn and returns
\* Failed after the wait ran out
C19_Witness ==
    /\ InRajasthan
    /\ Returning
    /\ attempts = <<"direct", "view", "postback">>
    /\ polls = WaitPolls
    /\ ~success

\* the View step is over: the postback step is next, or the download of
\* the captured address succeeded
ViewStepOver ==
    /\ InRajasthan
    /\ \/ pc = "raj_postback"
       \/ /\ pc = "finally"
          /\ attempts # <<>>
          /\ attempts[Len(attempts)] = "view"

\* C20: after the View step every window it opened is closed and the
\* driver is switched to main_window.
C20_ViewLeavesMainWindowOnly ==
    ViewStepOver => (extraWindows = 0 /\ activeWindow = "main")

-----------------------------------------------------------------------------
(* The claims about the Rajasthan postback wait (Spec) *)

\* the wait loop of the postback download is over
WaitEnded ==
    /\ pc = "finally"
    /\ attempts # <<>>
    /\ attempts[Len(attempts)] = "postback"

\* C11: when the postback wait is over and the browser wrote nothing into
\* the folder after before_files was taken, success is not reported and
\* the folder holds the names of before_files, no more and no fewer.
C11_NoNewFileMeansFailure ==
    (WaitEnded /\ ~appeared) => (~success /\ Names(dir) = before)

\* C12: when the postback wait reports success, the folder holds the file
\* under the target name and no longer under the name it was picked by.
C12_SuccessMeansRenamed ==
    (WaitEnded /\ success)
        => /\ Exists(dir, TargetFilename(Cur))
           /\ (picked.name # TargetFilename(Cur) => ~Exists(dir, picked.name))

\* C15: when one poll of the wait finds more than one new file and the
\* file of the name the download is expected under (tariff-orders.pdf) is
\* among them, that file is the one picked.
C15_ExpectedNamePicked ==
    (WaitEnded /\ success /\ Cardinality(picked.among) > 1
       /\ DefaultDownload \in picked.among)
        => picked.name = DefaultDownload

\* the rows consumed before the row that was selected
Earlier == 1..(sel.idx - 1)

-----------------------------------------------------------------------------
(* The claim about the scan of the details page (SpecDetail) *)

\* the link is classified as an order and not as a chart or schedule
OrderNotChart(link) == IsOrder(Unwrap(link)) /\ ~IsChart(Unwrap(link))

\* the places in pdf_links of the links that are orders and not charts
OrderLinks == {i \in 1..Len(matches) : OrderNotChart(matches[i])}

\* the two links of the scenario
ScenarioOrder == Origin \o <<"/", "TO_2024", ".pdf">>
ScenarioChart == Origin \o <<"/", "Chart_2024", ".pdf">>

\* C17: when the scan is over and pdf_links holds a link that is an order
\* and not a chart, final_pdf_url is the first such link of pdf_links,
\* whatever precedes or follows it; of TO_2024.pdf and Chart_2024.pdf, in
\* either order, it is TO_2024.pdf.
C17_OrderLinkPreferred ==
    (pc = "d_done")
        => /\ (OrderLinks # {}
                 => /\ sel.idx = SetMin(OrderLinks)
                    /\ target = Unwrap(matches[sel.idx]))
           /\ (matches \in {<<ScenarioOrder, ScenarioChart>>,
                            <<ScenarioChart, ScenarioOrder>>}
                 => target = ScenarioOrder)

\* C17 witness: the scan passed a link that is both order and chart, kept
\* as the fallback, and then took the order that follows it
C17_Witness ==
    /\ pc = "d_done"
    /\ Len(matches) > 1
    /\ IsOrder(matches[1]) /\ IsChart(matches[1])
    /\ sel.idx = 2
    /\ OrderNotChart(matches[2])

=============================================================================
